---- MODULE Spec2Model ----
(***************************************************************************)
(* Model of Dfa<State, Alpha> and DfaPlayer<State, Alpha>                  *)
(* (code/src/fsa/dfa.hpp), instantiated as Dfa<int, char> /                *)
(* DfaPlayer<int, char> as in code/src/fsa/main.cpp and                    *)
(* code/tests/dfa_test.cpp.                                                *)
(*                                                                         *)
(* The automaton is the record `dfa` with one field per data member; every *)
(* member function is an operator from records to records, and every       *)
(* public call is an action.  A player is a record of `pl`; play() is cut  *)
(* at its loop iterations (init, one replaySymb per symbol, the accepting  *)
(* check) so that the states during a run are states of the model.         *)
(* Following the lifecycle the library is used with, the automaton is      *)
(* built first and no longer edited once a player is bound to it; the      *)
(* record of the construction calls (ops, lastCall, lastAdd, firstAdded,   *)
(* initSet) is kept while the automaton is being built.                    *)
(***************************************************************************)
EXTENDS Integers, Sequences, FiniteSets, TLC

(***************************************************************************)
(* Bounds                                                                  *)
(***************************************************************************)
NumStates == 2      \* State values used by the callers: 0 .. NumStates-1
MaxOps == 2         \* addTrans / addFinState / addState / addSymbol /
                    \* setInitState calls made on one automaton, by its
                    \* caller or by the loops of its constructor
MaxSeqLen == 2      \* length of a replayed sequence

StateVals == 0 .. (NumStates - 1)
\* Alpha values used by the callers: the symbols of the automaton of
\* code/tests/dfa_test.cpp and code/src/fsa/main.cpp.
AlphaVals == {"0", "1"}

\* An int / char member that was never assigned holds an indeterminate
\* value: one of the values in use, or some other one.
JunkState == -7
JunkAlpha == "?"
UninitState == StateVals \cup {JunkState}
UninitAlpha == AlphaVals \cup {JunkAlpha}

\* Sequences over S of length at most n.
SeqsUpTo(S, n) == UNION {[1 .. k -> S] : k \in 0 .. n}

(***************************************************************************)
(* class Dfa                                                               *)
(***************************************************************************)

\* Dfa() = default: the containers are empty, _init is left unassigned
\* (g is the indeterminate content of the member).
DfaDefault(g) ==
    [_states |-> {}, _init |-> g, _alphabet |-> {},
     _transTable |-> [k \in {} |-> 0], _finStates |-> {}]

\* std::map::insert: the element is inserted only if the key is not present.
MapInsert(t, k, v) ==
    IF k \in DOMAIN t THEN t
    ELSE [x \in (DOMAIN t) \cup {k} |-> IF x = k THEN v ELSE t[x]]

\* addState assigning _init whether or not the automaton has states.
addState_always(D, s) ==
    [D EXCEPT !._init = s, !._states = @ \cup {s}]

addState(D, s) ==
    [D EXCEPT !._init = IF Cardinality(D._states) = 0 THEN s ELSE @,
              !._states = @ \cup {s}]

addSymbol(D, a) == [D EXCEPT !._alphabet = @ \cup {a}]

\* addTrans without addState(d).
addTrans_noDest(D, s, a, d) ==
    LET D1 == addState(D, s)
        D3 == addSymbol(D1, a)
    IN  [D3 EXCEPT !._transTable = MapInsert(@, <<s, a>>, d)]

\* addTrans recording the transition and its symbol only.
addTrans_tableOnly(D, s, a, d) ==
    LET D3 == addSymbol(D, a)
    IN  [D3 EXCEPT !._transTable = MapInsert(@, <<s, a>>, d)]

addTrans(D, s, a, d) ==
    LET D1 == addState(D, s)
        D2 == addState(D1, d)
        D3 == addSymbol(D2, a)
    IN  [D3 EXCEPT !._transTable = MapInsert(@, <<s, a>>, d)]

\* addFinState without _states.insert(s).
addFinState_finOnly(D, s) == [D EXCEPT !._finStates = @ \cup {s}]

addFinState(D, s) ==
    [D EXCEPT !._states = @ \cup {s}, !._finStates = @ \cup {s}]

setInitState(D, init) == [addState(D, init) EXCEPT !._init = init]

getInitState(D) == D._init
getStatesNum(D) == Cardinality(D._states)
getSymbolsNum(D) == Cardinality(D._alphabet)
getTransNum(D) == Cardinality(DOMAIN D._transTable)
getFinStatesNum(D) == Cardinality(D._finStates)

\* bool getTrans(s, a, State& d): found tells the returned flag, d the value
\* stored through the reference; d0 is what the caller's variable held.
getTrans(D, s, a, d0) ==
    IF <<s, a>> \in DOMAIN D._transTable
    THEN [found |-> TRUE, d |-> D._transTable[<<s, a>>]]
    ELSE [found |-> FALSE, d |-> d0]

hasState(D, s) == s \in D._states

\* hasFinState looking s up in _states.
hasFinState_anyState(D, s) == s \in D._states

hasFinState(D, s) == s \in D._finStates

\* The loops of the bulk constructor.
RECURSIVE AddTransAll(_, _)
AddTransAll(D, l) ==
    IF l = << >> THEN D
    ELSE AddTransAll(addTrans(D, l[1][1], l[1][2], l[1][3]), Tail(l))

RECURSIVE AddFinAll(_, _)
AddFinAll(D, fin) ==
    IF fin = << >> THEN D
    ELSE AddFinAll(addFinState(D, fin[1]), Tail(fin))

\* The constructor without its assignment _init = init.
DfaCtor_noAssign(g, init, l, fin) ==
    AddFinAll(addState(AddTransAll(DfaDefault(g), l), init), fin)

\* Dfa(State init, initializer_list<StateAlphaState> l, initializer_list<State> fin)
DfaCtor(g, init, l, fin) ==
    LET D1 == AddTransAll(DfaDefault(g), l)
        D2 == [addState(D1, init) EXCEPT !._init = init]
    IN  AddFinAll(D2, fin)

(***************************************************************************)
(* class DfaPlayer                                                         *)
(***************************************************************************)
Results == {"Ok", "NoTrans", "NonFinState"}

\* The player object before its constructor has run.
NoPlayer ==
    [pc |-> "none", _curState |-> JunkState, _curPos |-> 0,
     _lastSymb |-> JunkAlpha, _cb |-> FALSE,
     seq |-> << >>, it |-> 1, res |-> "none", heard |-> << >>,
     seen |-> << >>, again |-> FALSE]

\* The constructor without its assignment to _curPos, which then holds
\* whatever the memory held (here: 0).
DfaPlayerCtor_noPos(cb, gs, ga) ==
    [NoPlayer EXCEPT !.pc = "ready", !._cb = cb,
                     !._curState = gs, !._lastSymb = ga]

\* DfaPlayer(const SpecDfa& dfa, IEventListener* cb = nullptr): _curPos is
\* set, _curState and _lastSymb are left unassigned (gs, ga).
DfaPlayerCtor(cb, gs, ga) ==
    [NoPlayer EXCEPT !.pc = "ready", !._cb = cb, !._curPos = -1,
                     !._curState = gs, !._lastSymb = ga]

\* What a listener that asks the player its getters reads inside a call.
View(P) ==
    [curState |-> P._curState, curPos |-> P._curPos, lastSymb |-> P._lastSymb]

\* The listener's record of the calls it received in the current run (heard)
\* and of what the player's getters returned inside each of them (seen).
onStateChanging(P, preS, newS) ==
    [P EXCEPT !.heard = Append(@, [ev |-> "onStateChanging",
                                   preS |-> preS, newS |-> newS]),
              !.seen = Append(@, View(P))]

onTransFired(P, s, a, d) ==
    [P EXCEPT !.heard = Append(@, [ev |-> "onTransFired",
                                   s |-> s, a |-> a, d |-> d]),
              !.seen = Append(@, View(P))]

\* init() without the reset of _curPos.
init_keepPos(D, P) ==
    LET P1 == [P EXCEPT !._curState = getInitState(D)]
    IN  IF P1._cb THEN onStateChanging(P1, P1._curState, P1._curState)
        ELSE P1

\* init() resetting _lastSymb as well.
init_clearSymb(D, P) ==
    LET P1 == [P EXCEPT !._curState = getInitState(D), !._curPos = 0,
                        !._lastSymb = JunkAlpha]
    IN  IF P1._cb THEN onStateChanging(P1, P1._curState, P1._curState)
        ELSE P1

init(D, P) ==
    LET P1 == [P EXCEPT !._curState = getInitState(D), !._curPos = 0]
    IN  IF P1._cb THEN onStateChanging(P1, P1._curState, P1._curState)
        ELSE P1

\* replaySymb counting the symbol before looking its transition up.
replaySymb_countFirst(D, P, a) ==
    LET P1 == [P EXCEPT !._lastSymb = a, !._curPos = @ + 1]
        r  == getTrans(D, P1._curState, a, JunkState)
        P2 == IF P1._cb THEN onTransFired(P1, P1._curState, a, r.d) ELSE P1
    IN  IF ~r.found THEN [ok |-> FALSE, P |-> P1]
        ELSE [ok |-> TRUE, P |-> [P2 EXCEPT !._curState = r.d]]

\* replaySymb calling the listener after the state is updated.
replaySymb_notifyLate(D, P, a) ==
    LET P1 == [P EXCEPT !._lastSymb = a]
        r  == getTrans(D, P1._curState, a, JunkState)
        P2 == [P1 EXCEPT !._curState = r.d, !._curPos = @ + 1]
    IN  IF ~r.found THEN [ok |-> FALSE, P |-> P1]
        ELSE [ok |-> TRUE,
              P |-> IF P2._cb THEN onTransFired(P2, P2._curState, a, r.d)
                    ELSE P2]

\* replaySymb without the record of the symbol in _lastSymb.
replaySymb_keepSymb(D, P, a) ==
    LET r  == getTrans(D, P._curState, a, JunkState)
        P2 == IF P._cb THEN onTransFired(P, P._curState, a, r.d) ELSE P
    IN  IF ~r.found THEN [ok |-> FALSE, P |-> P]
        ELSE [ok |-> TRUE,
              P |-> [P2 EXCEPT !._curState = r.d, !._curPos = @ + 1]]

\* replaySymb moving to the next state only when no listener is set.
replaySymb_cbElse(D, P, a) ==
    LET P1 == [P EXCEPT !._lastSymb = a]
        r  == getTrans(D, P1._curState, a, JunkState)
    IN  IF ~r.found THEN [ok |-> FALSE, P |-> P1]
        ELSE [ok |-> TRUE,
              P |-> IF P1._cb
                    THEN [onTransFired(P1, P1._curState, a, r.d)
                             EXCEPT !._curPos = @ + 1]
                    ELSE [P1 EXCEPT !._curState = r.d, !._curPos = @ + 1]]

\* replaySymb calling the listener, with the right arguments, between the
\* update of _curState and the increment of _curPos.
replaySymb_notifyMid(D, P, a) ==
    LET P1 == [P EXCEPT !._lastSymb = a]
        r  == getTrans(D, P1._curState, a, JunkState)
        P2 == [P1 EXCEPT !._curState = r.d]
        P3 == IF P2._cb THEN onTransFired(P2, P1._curState, a, r.d) ELSE P2
    IN  IF ~r.found THEN [ok |-> FALSE, P |-> P1]
        ELSE [ok |-> TRUE, P |-> [P3 EXCEPT !._curPos = @ + 1]]

\* replaySymb calling the listener before it tests whether the transition
\* was found.
replaySymb_notifyFirst(D, P, a) ==
    LET P1 == [P EXCEPT !._lastSymb = a]
        r  == getTrans(D, P1._curState, a, JunkState)
        P2 == IF P1._cb THEN onTransFired(P1, P1._curState, a, r.d) ELSE P1
    IN  IF ~r.found THEN [ok |-> FALSE, P |-> P2]
        ELSE [ok |-> TRUE,
              P |-> [P2 EXCEPT !._curState = r.d, !._curPos = @ + 1]]

replaySymb(D, P, a) ==
    LET P1 == [P EXCEPT !._lastSymb = a]
        r  == getTrans(D, P1._curState, a, JunkState)
        P2 == IF P1._cb THEN onTransFired(P1, P1._curState, a, r.d) ELSE P1
    IN  IF ~r.found THEN [ok |-> FALSE, P |-> P1]
        ELSE [ok |-> TRUE,
              P |-> [P2 EXCEPT !._curState = r.d, !._curPos = @ + 1]]

getCurState(P) == P._curState
getCurPos(P) == P._curPos
getLastSymbol(P) == P._lastSymb
setEventListener(P, cb) == [P EXCEPT !._cb = cb]
getEventListener(P) == P._cb

\* play(seq) as one call: the player it leaves and the value it returns.
RECURSIVE PlayLoop(_, _, _)
PlayLoop(D, P, seq) ==
    IF seq = << >>
    THEN [P |-> P, res |-> IF ~hasFinState(D, P._curState) THEN "NonFinState"
                           ELSE "Ok"]
    ELSE LET r == replaySymb(D, P, Head(seq))
         IN  IF ~r.ok THEN [P |-> r.P, res |-> "NoTrans"]
             ELSE PlayLoop(D, r.P, Tail(seq))

play(D, P, seq) == PlayLoop(D, init(D, P), seq)

(***************************************************************************)
(* State                                                                   *)
(***************************************************************************)
VARIABLES
    dfa,        \* the automaton
    made,       \* FALSE until a constructor of Dfa has run
    ops,        \* number of construction calls made so far
    fault,      \* TRUE when a call has left the program in no defined state
    lastCall,   \* the construction call made last, and the automaton before it
    lastAdd,    \* (s, a) |-> d of the most recent addTrans(s, a, d)
    firstAdded, \* <<s>> for the first state ever added, << >> if none
    initSet,    \* TRUE when the initial state was set explicitly
    pl          \* the players

vars == <<dfa, made, ops, fault, lastCall, lastAdd, firstAdded, initSet, pl>>

AllPlayers == {1, 2}
Triples == StateVals \X AlphaVals \X StateVals
NoCall == [op |-> "none"]

Init ==
    /\ dfa \in {DfaDefault(g) : g \in UninitState}
    /\ made = FALSE
    /\ ops = 0
    /\ fault = FALSE
    /\ lastCall = NoCall
    /\ lastAdd = [k \in {} |-> 0]
    /\ firstAdded = << >>
    /\ initSet = FALSE
    /\ pl = [p \in AllPlayers |-> NoPlayer]

\* No player is bound to the automaton yet.
Unbound == \A p \in AllPlayers : pl[p].pc = "none"

\* A construction call can be made.
Editable == made /\ ~fault /\ Unbound /\ ops < MaxOps

NoteFirst(s) == IF firstAdded = << >> THEN <<s>> ELSE firstAdded

RECURSIVE LastAddAll(_, _)
LastAddAll(m, l) ==
    IF l = << >> THEN m
    ELSE LET k == <<l[1][1], l[1][2]>>
         IN  LastAddAll([x \in (DOMAIN m) \cup {k} |->
                            IF x = k THEN l[1][3] ELSE m[x]], Tail(l))

(***************************************************************************)
(* Construction of the automaton                                           *)
(***************************************************************************)
NewDfa ==
    /\ ~made
    /\ made' = TRUE
    /\ lastCall' = [op |-> "Dfa", pre |-> dfa]
    /\ UNCHANGED <<dfa, ops, fault, lastAdd, firstAdded, initSet, pl>>

\* The arguments are an initial state, a list of triples and a list of
\* accepting states; the calls the two loops make count as construction calls.
NewDfaBulk ==
    /\ ~made
    /\ \E n \in 0 .. MaxOps :
         \E q0 \in StateVals, l \in [1 .. n -> Triples],
            fin \in SeqsUpTo(StateVals, MaxOps - n) :
             /\ made' = TRUE
             /\ ops' = Len(l) + Len(fin)
             /\ dfa' = DfaCtor(dfa._init, q0, l, fin)
             /\ lastCall' = [op |-> "DfaBulk", q0 |-> q0, l |-> l,
                             fin |-> fin, pre |-> dfa]
             /\ lastAdd' = LastAddAll(lastAdd, l)
             /\ firstAdded' = IF l = << >> THEN <<q0>> ELSE <<l[1][1]>>
             /\ initSet' = TRUE
             /\ UNCHANGED <<fault, pl>>

AddState(s) ==
    /\ Editable
    /\ dfa' = addState(dfa, s)
    /\ ops' = ops + 1
    /\ lastCall' = [op |-> "addState", s |-> s, pre |-> dfa]
    /\ firstAdded' = NoteFirst(s)
    /\ UNCHANGED <<made, fault, lastAdd, initSet, pl>>

AddSymbol(a) ==
    /\ Editable
    /\ dfa' = addSymbol(dfa, a)
    /\ ops' = ops + 1
    /\ lastCall' = [op |-> "addSymbol", a |-> a, pre |-> dfa]
    /\ UNCHANGED <<made, fault, lastAdd, firstAdded, initSet, pl>>

AddTrans(s, a, d) ==
    /\ Editable
    /\ dfa' = addTrans(dfa, s, a, d)
    /\ ops' = ops + 1
    /\ lastCall' = [op |-> "addTrans", s |-> s, a |-> a, d |-> d, pre |-> dfa]
    /\ lastAdd' = LastAddAll(lastAdd, <<(<<s, a, d>>)>>)
    /\ firstAdded' = NoteFirst(s)
    /\ UNCHANGED <<made, fault, initSet, pl>>

AddFinState(s) ==
    /\ Editable
    /\ dfa' = addFinState(dfa, s)
    /\ ops' = ops + 1
    /\ lastCall' = [op |-> "addFinState", s |-> s, pre |-> dfa]
    /\ firstAdded' = NoteFirst(s)
    /\ UNCHANGED <<made, fault, lastAdd, initSet, pl>>

\* setInitState is declared to return State and has no return statement:
\* after its two statements the call either comes back with an indeterminate
\* value or does not come back at all (trap).
SetInitState(s) ==
    /\ Editable
    /\ dfa' = setInitState(dfa, s)
    /\ ops' = ops + 1
    /\ lastCall' = [op |-> "setInitState", s |-> s, pre |-> dfa]
    /\ firstAdded' = NoteFirst(s)
    /\ initSet' = TRUE
    /\ fault' \in BOOLEAN
    /\ UNCHANGED <<made, lastAdd, pl>>

(***************************************************************************)
(* Players                                                                 *)
(***************************************************************************)
\* play() has returned r.
Halt(P, r) == [P EXCEPT !.pc = "halted", !.res = r]

NewPlayer(p, cb, gs, ga) ==
    /\ made /\ ~fault
    /\ pl[p].pc = "none"
    /\ pl' = [pl EXCEPT ![p] = DfaPlayerCtor(cb, gs, ga)]
    /\ ops' = 0
    /\ lastCall' = NoCall
    /\ lastAdd' = [k \in {} |-> 0]
    /\ firstAdded' = << >>
    /\ initSet' = FALSE
    /\ UNCHANGED <<dfa, made, fault>>

SetEventListener(p, cb) ==
    /\ pl[p].pc \in {"ready", "halted"}
    /\ pl[p]._cb # cb
    /\ pl' = [pl EXCEPT ![p] = setEventListener(@, cb)]
    /\ UNCHANGED <<dfa, made, ops, fault, lastCall, lastAdd, firstAdded, initSet>>

\* play(seq), up to the first iteration of its loop: init().
PlayBegin(p, seq) ==
    /\ pl[p].pc \in {"ready", "halted"}
    /\ pl' = [pl EXCEPT ![p] =
                init(dfa, [@ EXCEPT !.pc = "running", !.seq = seq, !.it = 1,
                                    !.res = "none", !.heard = << >>,
                                    !.seen = << >>,
                                    !.again = (@ \/ pl[p].pc = "halted")])]
    /\ UNCHANGED <<dfa, made, ops, fault, lastCall, lastAdd, firstAdded, initSet>>

\* The iteration with _curState a static member: one object for all players.
PlaySymb_shared(p) ==
    /\ pl[p].pc = "running"
    /\ pl[p].it <= Len(pl[p].seq)
    /\ LET r == replaySymb(dfa, pl[p], pl[p].seq[pl[p].it])
       IN  pl' = [q \in AllPlayers |->
                    IF q = p
                    THEN IF r.ok THEN [r.P EXCEPT !.it = @ + 1]
                         ELSE Halt(r.P, "NoTrans")
                    ELSE IF pl[q].pc = "none" THEN pl[q]
                         ELSE [pl[q] EXCEPT !._curState = r.P._curState]]
    /\ UNCHANGED <<dfa, made, ops, fault, lastCall, lastAdd, firstAdded, initSet>>

\* The iteration with a lookup that inserts the key it does not find (the
\* subscript operator of the map in place of find).
PlaySymb_inserting(p) ==
    /\ pl[p].pc = "running"
    /\ pl[p].it <= Len(pl[p].seq)
    /\ LET r == replaySymb(dfa, pl[p], pl[p].seq[pl[p].it])
       IN  /\ pl' = [pl EXCEPT ![p] =
                        IF r.ok THEN [r.P EXCEPT !.it = @ + 1]
                        ELSE Halt(r.P, "NoTrans")]
           /\ dfa' = [dfa EXCEPT !._transTable =
                         MapInsert(@, <<pl[p]._curState, pl[p].seq[pl[p].it]>>, 0)]
    /\ UNCHANGED <<made, ops, fault, lastCall, lastAdd, firstAdded, initSet>>

\* One iteration of the loop of play(): replaySymb on the next symbol.
PlaySymb(p) ==
    /\ pl[p].pc = "running"
    /\ pl[p].it <= Len(pl[p].seq)
    /\ LET r == replaySymb(dfa, pl[p], pl[p].seq[pl[p].it])
       IN  pl' = [pl EXCEPT ![p] =
                    IF r.ok THEN [r.P EXCEPT !.it = @ + 1]
                    ELSE Halt(r.P, "NoTrans")]
    /\ UNCHANGED <<dfa, made, ops, fault, lastCall, lastAdd, firstAdded, initSet>>

\* play() after its loop: the check for the accepting state.
PlayEnd(p) ==
    /\ pl[p].pc = "running"
    /\ pl[p].it > Len(pl[p].seq)
    /\ pl' = [pl EXCEPT ![p] =
                Halt(@, IF ~hasFinState(dfa, @._curState) THEN "NonFinState"
                        ELSE "Ok")]
    /\ UNCHANGED <<dfa, made, ops, fault, lastCall, lastAdd, firstAdded, initSet>>

(***************************************************************************)
(* Specification: one automaton, one player                                *)
(***************************************************************************)
Solo == {1}

\* The calls that build the automaton.
Build ==
    \/ NewDfa
    \/ NewDfaBulk
    \/ \E s \in StateVals : AddState(s)
    \/ \E a \in AlphaVals : AddSymbol(a)
    \/ \E s \in StateVals, a \in AlphaVals, d \in StateVals : AddTrans(s, a, d)
    \/ \E s \in StateVals : AddFinState(s)
    \/ \E s \in StateVals : SetInitState(s)

\* The calls on the players in P.
Replay(P) ==
    \/ \E p \in P, cb \in BOOLEAN, gs \in UninitState, ga \in UninitAlpha :
          NewPlayer(p, cb, gs, ga)
    \/ \E p \in P, cb \in BOOLEAN : SetEventListener(p, cb)
    \/ \E p \in P, seq \in SeqsUpTo(AlphaVals, MaxSeqLen) : PlayBegin(p, seq)
    \/ \E p \in P : PlaySymb(p)
    \/ \E p \in P : PlayEnd(p)

Next == Build \/ Replay(Solo)

\* The automaton alone, under construction.
SpecDfa == Init /\ [][Build]_vars

\* The automaton and one player.
Spec == Init /\ [][Next]_vars

(***************************************************************************)
(* Specification: one automaton, two players                               *)
(***************************************************************************)
\* The first call of play() on a player.
PlayFirst(p, seq) == pl[p].pc = "ready" /\ PlayBegin(p, seq)

\* The automaton is built by the bulk constructor and not edited; each player
\* is constructed and makes one run, at its own pace, a step of play() at a
\* time.
NextTwo ==
    \/ NewDfaBulk
    \/ \E p \in AllPlayers, cb \in BOOLEAN :
          NewPlayer(p, cb, JunkState, JunkAlpha)
    \/ \E p \in AllPlayers, seq \in SeqsUpTo(AlphaVals, MaxSeqLen) :
          PlayFirst(p, seq)
    \/ \E p \in AllPlayers : PlaySymb(p)
    \/ \E p \in AllPlayers : PlayEnd(p)

SpecTwo == Init /\ [][NextTwo]_vars

TypeOK ==
    /\ dfa._states \subseteq StateVals
    /\ dfa._init \in UninitState
    /\ \A p \in AllPlayers : pl[p].pc \in {"none", "ready", "running", "halted"}

(***************************************************************************)
(* What the claims speak of                                                *)
(***************************************************************************)
\* Players that have been constructed, are inside play(), have left play().
Ready(p) == pl[p].pc = "ready"
Running(p) == pl[p].pc = "running"
Halted(p) == pl[p].pc = "halted"

\* The transition mapping as a partial function.
Defined(D, s, a) == <<s, a>> \in DOMAIN D._transTable
Dest(D, s, a) == D._transTable[<<s, a>>]

\* The states visited when the transitions of seq are followed from s, as
\* far as they are defined: <<s, s1, ..., sm>>, m symbols matched.
RECURSIVE Walk(_, _, _)
Walk(D, s, seq) ==
    IF seq = << >> \/ ~Defined(D, s, Head(seq)) THEN <<s>>
    ELSE <<s>> \o Walk(D, Dest(D, s, Head(seq)), Tail(seq))

Path(D, seq) == Walk(D, D._init, seq)
Matched(D, seq) == Len(Path(D, seq)) - 1
Consumed(D, seq) == Matched(D, seq) = Len(seq)
Last(w) == w[Len(w)]

\* The construction calls a list of triples, an initial state and a list of
\* accepting states stand for, and their effect on an automaton.
CallsOf(q0, l, fin) ==
    [i \in 1 .. Len(l) |-> [op |-> "addTrans", s |-> l[i][1], a |-> l[i][2],
                            d |-> l[i][3]]]
    \o << [op |-> "setInitState", s |-> q0] >>
    \o [i \in 1 .. Len(fin) |-> [op |-> "addFinState", s |-> fin[i]]]

Apply(D, c) ==
    CASE c.op = "addTrans" -> addTrans(D, c.s, c.a, c.d)
      [] c.op = "setInitState" -> setInitState(D, c.s)
      [] c.op = "addFinState" -> addFinState(D, c.s)

RECURSIVE ApplyAll(_, _)
ApplyAll(D, cs) ==
    IF cs = << >> THEN D ELSE ApplyAll(Apply(D, Head(cs)), Tail(cs))

(***************************************************************************)
(* Claims                                                                  *)
(***************************************************************************)

\* C1: last write wins: for every (s, a) that addTrans was called for,
\* getTrans(s, a) finds a destination and it is the d of the most recent
\* addTrans(s, a, d).
LastWriteWins ==
    \A k \in DOMAIN lastAdd :
        getTrans(dfa, k[1], k[2], JunkState) = [found |-> TRUE, d |-> lastAdd[k]]

\* C2: when play(seq) has returned, its result is one of Ok, NoTrans,
\* NonFinState; it is NoTrans iff some symbol of seq has no transition from
\* the state reached so far, and otherwise Ok iff the state reached after all
\* of seq is accepting, NonFinState iff it is not.
PlayResult ==
    \A p \in AllPlayers : Halted(p) =>
        LET P == pl[p] IN
        /\ P.res \in Results
        /\ P.res = "NoTrans" <=> ~Consumed(dfa, P.seq)
        /\ Consumed(dfa, P.seq) =>
              /\ P.res = "Ok" <=> Last(Path(dfa, P.seq)) \in dfa._finStates
              /\ P.res = "NonFinState" <=>
                    Last(Path(dfa, P.seq)) \notin dfa._finStates

PlayResultWitness ==
    \E p \in AllPlayers :
        /\ Halted(p) /\ pl[p].res = "Ok" /\ Len(pl[p].seq) >= 1
        /\ pl[p]._curState # dfa._init

\* C3: when play(seq) has returned NoTrans, with k (counted from 0) the index
\* of the first symbol without a transition: the loop stopped at that symbol,
\* _curPos is k, _lastSymb is seq[k] and _curState is the state seq[k] was
\* tried in.
NoTransHalt ==
    \A p \in AllPlayers : (Halted(p) /\ pl[p].res = "NoTrans") =>
        LET P == pl[p]
            k == Matched(dfa, P.seq)
        IN  /\ k < Len(P.seq)
            /\ P.it = k + 1
            /\ getCurPos(P) = k
            /\ getLastSymbol(P) = P.seq[k + 1]
            /\ getCurState(P) = Last(Path(dfa, P.seq))

NoTransHaltWitness ==
    \E p \in AllPlayers :
        /\ Halted(p) /\ pl[p].res = "NoTrans"
        /\ pl[p]._curPos = 1 /\ Len(pl[p].seq) = 2
        /\ pl[p]._curState # dfa._init

\* C4: an automaton with at least one state has its initial state among its
\* states; and while the initial state was never set explicitly it is the
\* first state ever added, whichever call added it.
InitialStateIsAState ==
    (made /\ dfa._states # {}) =>
        /\ getInitState(dfa) \in dfa._states
        /\ (~initSet /\ firstAdded # << >>) => getInitState(dfa) = firstAdded[1]

\* C5: each play() is a fresh full run: whatever calls the player served
\* before, the result and the final _curState and _curPos of play(seq) are
\* those of play(seq) on a player just constructed.
FreshRun ==
    \A p \in AllPlayers : Halted(p) =>
        \A cb \in BOOLEAN, gs \in UninitState, ga \in UninitAlpha :
            LET F == play(dfa, DfaPlayerCtor(cb, gs, ga), pl[p].seq) IN
            /\ pl[p].res = F.res
            /\ getCurState(pl[p]) = getCurState(F.P)
            /\ getCurPos(pl[p]) = getCurPos(F.P)

FreshRunWitness ==
    \E p \in AllPlayers :
        /\ Halted(p) /\ pl[p].again
        /\ pl[p].res = "NonFinState" /\ pl[p]._curPos = 2

\* What a listener is to receive in a run of seq in which the first m
\* symbols were consumed.
Expected(D, seq, m) ==
    LET w == Path(D, seq)
    IN  << [ev |-> "onStateChanging", preS |-> D._init, newS |-> D._init] >>
        \o [i \in 1 .. m |->
              [ev |-> "onTransFired", s |-> w[i], a |-> seq[i], d |-> w[i + 1]]]

\* C6: a listener attached to a run receives one onStateChanging(q0, q0), q0
\* the initial state, and then, for each symbol consumed so far and in input
\* order, one onTransFired(state before, symbol, state after); so exactly n
\* of them, and nothing after them, when play() returns with the n symbols of
\* the sequence consumed.
ObserverOrdering ==
    \A p \in AllPlayers :
        LET P == pl[p] IN
        /\ (Running(p) /\ getEventListener(P)) =>
              /\ P.it - 1 <= Matched(dfa, P.seq)
              /\ P.heard = Expected(dfa, P.seq, P.it - 1)
        /\ (Halted(p) /\ P.res # "NoTrans" /\ P.heard # << >>) =>
              P.heard = Expected(dfa, P.seq, Len(P.seq))

ObserverOrderingWitness ==
    \E p \in AllPlayers :
        /\ Halted(p) /\ pl[p].res # "NoTrans"
        /\ Len(pl[p].seq) = 2
        /\ Len(pl[p].heard) = 3
        /\ pl[p].heard[2].d # pl[p].heard[2].s
        /\ pl[p].heard[2].a # pl[p].heard[3].a

\* C7: the source and the destination of every recorded transition are
\* states and its label is in the alphabet; and right after addTrans(s, a, d),
\* s and d are states and a is in the alphabet.
AutoInsertion ==
    /\ \A k \in DOMAIN dfa._transTable :
          /\ hasState(dfa, k[1])
          /\ hasState(dfa, dfa._transTable[k])
          /\ k[2] \in dfa._alphabet
    /\ lastCall.op = "addTrans" =>
          /\ hasState(dfa, lastCall.s)
          /\ hasState(dfa, lastCall.d)
          /\ lastCall.a \in dfa._alphabet
          /\ getSymbolsNum(dfa) >= 1

AutoInsertionWitness ==
    /\ lastCall.op = "addTrans"
    /\ lastCall.s # lastCall.d
    /\ lastCall.pre._states = {}
    /\ lastCall.pre._alphabet = {}

\* C8: the accepting states are states, always; and right after
\* addFinState(s), s is a state and an accepting state.
AcceptingAreStates ==
    /\ dfa._finStates \subseteq dfa._states
    /\ lastCall.op = "addFinState" =>
          hasState(dfa, lastCall.s) /\ hasFinState(dfa, lastCall.s)

AcceptingAreStatesWitness ==
    /\ lastCall.op = "addFinState"
    /\ lastCall.s \notin lastCall.pre._states
    /\ lastCall.pre._states # {}

\* C9: the bulk constructor leaves the automaton that addTrans for each
\* triple in order, then setInitState(init), then addFinState for each
\* accepting state leave of an empty one; its initial state is init.
BulkIsIncremental ==
    lastCall.op = "DfaBulk" =>
        /\ dfa = ApplyAll(lastCall.pre,
                          CallsOf(lastCall.q0, lastCall.l, lastCall.fin))
        /\ getInitState(dfa) = lastCall.q0

BulkIsIncrementalWitness ==
    /\ lastCall.op = "DfaBulk"
    /\ Len(lastCall.l) = 2
    /\ \A i \in 1 .. 2 :
          lastCall.l[i][1] # lastCall.q0 /\ lastCall.l[i][3] # lastCall.q0

\* C10: a player no play() was called on reports the position -1; a player
\* inside play() or back from it reports a position between 0 and the length
\* of the sequence, never -1.
NotStartedSentinel ==
    \A p \in AllPlayers :
        /\ Ready(p) => getCurPos(pl[p]) = -1
        /\ (Running(p) \/ Halted(p)) =>
              /\ getCurPos(pl[p]) \in 0 .. Len(pl[p].seq)
              /\ getCurPos(pl[p]) # -1

NotStartedSentinelWitness ==
    \E p \in AllPlayers :
        /\ Halted(p) /\ pl[p].res = "NoTrans" /\ pl[p]._curPos = 0
        /\ pl[p].again

\* C11: when play(seq) has returned Ok or NonFinState for a sequence of
\* n >= 1 symbols, getCurPos() is n, getLastSymbol() is the last symbol of
\* the sequence and getCurState() is the state the transitions of the
\* sequence lead to from the initial state.
FullyConsumed ==
    \A p \in AllPlayers :
        LET P == pl[p]
            n == Len(P.seq)
        IN  (Halted(p) /\ P.res \in {"Ok", "NonFinState"} /\ n >= 1) =>
                /\ Consumed(dfa, P.seq)
                /\ getCurPos(P) = n
                /\ getLastSymbol(P) = P.seq[n]
                /\ getCurState(P) = Last(Path(dfa, P.seq))

FullyConsumedWitness ==
    \E p \in AllPlayers :
        /\ Halted(p) /\ pl[p].res = "NonFinState"
        /\ Len(pl[p].seq) = 2 /\ pl[p].seq[1] # pl[p].seq[2]
        /\ pl[p]._curState # dfa._init
        /\ pl[p]._lastSymb = pl[p].seq[2]

\* C12: right after addState(x): x is a state and the other states are those
\* from before; on an automaton without states x is the initial state; on an
\* automaton with states the initial state is the one from before; for x
\* already a state nothing of the automaton has changed; and the alphabet,
\* the transitions and the accepting states are never touched.
AddStateEffect ==
    lastCall.op = "addState" =>
        LET pre == lastCall.pre
            x   == lastCall.s
        IN  /\ hasState(dfa, x)
            /\ dfa._states = pre._states \cup {x}
            /\ getStatesNum(pre) = 0 => getInitState(dfa) = x
            /\ getStatesNum(pre) > 0 => getInitState(dfa) = getInitState(pre)
            /\ hasState(pre, x) => dfa = pre
            /\ dfa._alphabet = pre._alphabet
            /\ dfa._transTable = pre._transTable
            /\ dfa._finStates = pre._finStates

AddStateEffectWitness ==
    /\ lastCall.op = "addState"
    /\ getStatesNum(lastCall.pre) > 0
    /\ ~hasState(lastCall.pre, lastCall.s)
    /\ getInitState(dfa) # lastCall.s

\* C13: setInitState(s) succeeds for every s, a state already or not: the
\* call comes back, and after it s is a state, s is the initial state, and
\* the alphabet, the transitions and the accepting states are those from
\* before.
SetInitStateSucceeds ==
    lastCall.op = "setInitState" =>
        LET pre == lastCall.pre
            s   == lastCall.s
        IN  /\ ~fault
            /\ hasState(dfa, s)
            /\ getInitState(dfa) = s
            /\ dfa._states = pre._states \cup {s}
            /\ dfa._alphabet = pre._alphabet
            /\ dfa._transTable = pre._transTable
            /\ dfa._finStates = pre._finStates

\* What play() is observed to leave: its result and the three getters.
Outcome(P, res) ==
    [res |-> res, curState |-> getCurState(P), curPos |-> getCurPos(P),
     lastSymb |-> getLastSymbol(P)]

\* C14: a listener has no influence on the outcome of a run: when play(seq)
\* has returned, its result and the final getCurState(), getCurPos() and
\* getLastSymbol() are those play(seq) gives on the same player with a
\* listener set and with none set.
ObserverNeutral ==
    \A p \in AllPlayers : Halted(p) =>
        \A cb \in BOOLEAN :
            LET F == play(dfa, setEventListener(pl[p], cb), pl[p].seq)
            IN  Outcome(F.P, F.res) = Outcome(pl[p], pl[p].res)

ObserverNeutralWitness ==
    \E p \in AllPlayers :
        /\ Halted(p) /\ pl[p].res = "Ok"
        /\ Len(pl[p].heard) = 2
        /\ pl[p]._curState # dfa._init

\* The player p as play(seq) alone leaves it after k symbols went through
\* replaySymb, started on the player as it is now (what a run does not reset
\* is what it keeps).
Alone(p, k) ==
    PlayLoop(dfa, init(dfa, [pl[p] EXCEPT !.heard = << >>, !.seen = << >>]),
             SubSeq(pl[p].seq, 1, k)).P

\* C15: two players on one automaton do not interfere: in every interleaving
\* of their steps, a player inside play(seq) holds the state, the position
\* and the last symbol that play alone has after the same number of symbols,
\* and a player that has left play(seq) has the result, state, position,
\* last symbol and listener's record of play(seq) run alone.
NoInterference ==
    \A p \in AllPlayers :
        /\ Running(p) =>
              LET A == Alone(p, pl[p].it - 1)
              IN  /\ Outcome(pl[p], "none") = Outcome(A, "none")
                  /\ pl[p].heard = A.heard
        /\ Halted(p) =>
              LET F == play(dfa, [pl[p] EXCEPT !.heard = << >>, !.seen = << >>],
                            pl[p].seq)
              IN  /\ Outcome(pl[p], pl[p].res) = Outcome(F.P, F.res)
                  /\ pl[p].heard = F.P.heard

\* Both players are in the middle of different runs.
NoInterferenceWitness ==
    /\ Running(1) /\ Running(2)
    /\ pl[1].it = 2 /\ pl[2].it = 2
    /\ pl[1].seq[1] # pl[2].seq[1]
    /\ pl[1]._curState # pl[2]._curState

\* C16: onTransFired is delivered before the state is updated: inside the
\* call onTransFired(s, a, d) for the symbol of index i (from 0) the getters
\* give getCurState() = s, getCurPos() = i, getLastSymbol() = a; once the
\* call has returned the state is d and the position i + 1, and that is what
\* the next call sees.
NotifyBeforeUpdate ==
    \A p \in AllPlayers :
        LET P == pl[p]
            n == Len(P.heard)
        IN  /\ Len(P.seen) = n
            /\ \A k \in 2 .. n :
                  /\ P.heard[k].ev = "onTransFired"
                  /\ P.seen[k] = [curState |-> P.heard[k].s, curPos |-> k - 2,
                                  lastSymb |-> P.heard[k].a]
                  /\ P.heard[k].a = P.seq[k - 1]
                  /\ k < n => /\ P.seen[k + 1].curState = P.heard[k].d
                              /\ P.seen[k + 1].curPos = k - 1
            /\ n >= 2 => /\ getCurState(P) = P.heard[n].d
                         /\ getCurPos(P) = n - 1

NotifyBeforeUpdateWitness ==
    \E p \in AllPlayers :
        /\ Running(p)
        /\ Len(pl[p].heard) = 3
        /\ pl[p].heard[3].s # pl[p].heard[3].d
        /\ pl[p].seen[3].curState = pl[p].heard[3].s
        /\ pl[p]._curState = pl[p].heard[3].d

\* The number of calls of the kind ev the listener received in the run.
Heard(P, ev) == Cardinality({k \in 1 .. Len(P.heard) : P.heard[k].ev = ev})

\* C17: in a run with a listener, onTransFired is called once for each
\* matched transition and never for a symbol without one: during the run and
\* after it, whatever its result, the number of onTransFired calls is
\* getCurPos(), there was one onStateChanging call, and a run that returned
\* NoTrans delivered nothing for the symbol it stopped at nor after it.
OncePerTransition ==
    \A p \in AllPlayers :
        LET P == pl[p] IN
        /\ ((Running(p) /\ getEventListener(P)) \/ (Halted(p) /\ P.heard # << >>)) =>
              /\ Heard(P, "onTransFired") = getCurPos(P)
              /\ Heard(P, "onStateChanging") = 1
              /\ Len(P.heard) = 1 + getCurPos(P)
        /\ (Halted(p) /\ P.res = "NoTrans" /\ P.heard # << >>) =>
              /\ Len(P.heard) = P.it
              /\ Heard(P, "onTransFired") = Matched(dfa, P.seq)
              /\ \A k \in 2 .. Len(P.heard) : P.heard[k].a = P.seq[k - 1]

OncePerTransitionWitness ==
    \E p \in AllPlayers :
        /\ Halted(p) /\ pl[p].res = "NoTrans"
        /\ Len(pl[p].seq) = 2
        /\ Heard(pl[p], "onTransFired") = 1
        /\ pl[p]._curPos = 1

\* A step of p inside play(): its first, one of its loop, or its last.
PlayStep(p) ==
    /\ pl'[p] # pl[p]
    /\ pl[p].pc = "running" \/ pl'[p].pc = "running"

\* C18: play() never modifies the automaton: no step of a run changes the
\* states, the alphabet, the transitions, the initial state or the accepting
\* states, so they are after play() what they were before it.
PlayKeepsDfa ==
    [][\A p \in AllPlayers : PlayStep(p) =>
          /\ dfa'._states = dfa._states
          /\ dfa'._alphabet = dfa._alphabet
          /\ dfa'._transTable = dfa._transTable
          /\ dfa'._init = dfa._init
          /\ dfa'._finStates = dfa._finStates]_vars

\* A run has looked up a pair the automaton has no transition for.
PlayKeepsDfaWitness ==
    \E p \in AllPlayers :
        /\ Halted(p) /\ pl[p].res = "NoTrans"
        /\ ~Defined(dfa, pl[p]._curState, pl[p]._lastSymb)
        /\ pl[p]._curPos = 1
        /\ pl[p]._lastSymb \notin dfa._alphabet

\* C19: the start of a run resets _curState and _curPos and leaves _lastSymb:
\* the first step of play() gives the initial state and position 0 and keeps
\* what getLastSymbol() returned before the call; and play() of the empty
\* sequence then returns Ok if the initial state is accepting and NonFinState
\* if not, never NoTrans, with the state, the position and the last symbol
\* still those.
EmptyRunKeepsSymbol ==
    [][\A p \in AllPlayers :
          /\ (pl[p].pc \in {"ready", "halted"} /\ pl'[p].pc = "running") =>
                /\ getCurState(pl'[p]) = getInitState(dfa)
                /\ getCurPos(pl'[p]) = 0
                /\ getLastSymbol(pl'[p]) = getLastSymbol(pl[p])
          /\ (Running(p) /\ pl[p].seq = << >> /\ pl'[p].pc = "halted") =>
                /\ pl'[p].res = IF hasFinState(dfa, getInitState(dfa))
                                THEN "Ok" ELSE "NonFinState"
                /\ getCurState(pl'[p]) = getInitState(dfa)
                /\ getCurPos(pl'[p]) = 0
                /\ getLastSymbol(pl'[p]) = getLastSymbol(pl[p])]_vars

\* An empty run after a run that consumed a symbol.
EmptyRunKeepsSymbolWitness ==
    \E p \in AllPlayers :
        /\ Halted(p) /\ pl[p].again
        /\ pl[p].seq = << >>
        /\ pl[p].res = "Ok"
        /\ pl[p]._lastSymb \in AlphaVals
        /\ pl[p]._curPos = 0

\* C20: on an automaton whose initial state is one of its states, the state
\* of a player is one of the automaton's states at every step of every run
\* and after the run, whatever the input, symbols outside the alphabet
\* included.
CurStateIsAState ==
    hasState(dfa, getInitState(dfa)) =>
        \A p \in AllPlayers :
            (Running(p) \/ Halted(p)) => hasState(dfa, getCurState(pl[p]))

CurStateIsAStateWitness ==
    \E p \in AllPlayers :
        /\ hasState(dfa, getInitState(dfa))
        /\ Halted(p) /\ pl[p].res = "NoTrans"
        /\ pl[p]._curPos = 1
        /\ pl[p]._curState # dfa._init
        /\ pl[p].seq[2] \notin dfa._alphabet

====
